---- MODULE Spec2Model ----
(***************************************************************************)
(* Model of lm_eval/logging/evaluation_tracker.py: EvaluationTracker.      *)
(* The tracker writes result and sample files, uploads them to a remote    *)
(* dataset repository and rebuilds the repository's metadata card from the *)
(* flat listing of the repository's files.                                 *)
(*                                                                         *)
(* File names, task names and timestamps are strings; the Python string    *)
(* operations the code uses (find, rfind, slicing, replace, re.sub, in,    *)
(* max, os.path.basename, os.path.join) are modelled character by          *)
(* character.                                                              *)
(***************************************************************************)
EXTENDS Integers, Sequences, FiniteSets, TLC

VARIABLES
    repo_files,      \* the remote repository: its file paths, in listing order
    repo_card,       \* the card pushed to the remote repository (NoCard: none)
    card_metadata,   \* recreate_metadata_card: the catalog it built last
    latest_dt,       \* recreate_metadata_card: latest_task_results_datetime
    listed,          \* recreate_metadata_card: files_in_repo of the last build
    outcome,         \* how the last call ended
    date_id,         \* self.date_id (Unset: the attribute does not exist)
    local_files,     \* the output directory: file name -> what was written
    clock,           \* number of datetime.now() readings so far
    run,             \* number of save_results_aggregated calls so far
    config,          \* the constructor's arguments
    samples,         \* save_results_aggregated: its samples argument
    task_hashes      \* save_results_aggregated: results["task_hashes"]

vars == <<repo_files, repo_card, card_metadata, latest_dt, listed, outcome,
          date_id, local_files, clock, run, config, samples, task_hashes>>

----------------------------------------------------------------------------
(* Python strings *)

\* The characters that occur, in code point order.
CodePoints == "*-./0123456789:T_abcdefghijklmnopqrstuvwxyz"

Ord(c) == CHOOSE i \in 1..Len(CodePoints) : SubSeq(CodePoints, i, i) = c

Char(s, i) == SubSeq(s, i, i)

\* \w of the re module, on the characters that occur
WordChars ==
    {"0", "1", "2", "3", "4", "5", "6", "7", "8", "9", "T", "_",
     "a", "b", "c", "d", "e", "f", "g", "h", "i", "j", "k", "l", "m",
     "n", "o", "p", "q", "r", "s", "t", "u", "v", "w", "x", "y", "z"}

\* a < b for Python strings: code point by code point, a proper prefix first
RECURSIVE StrLessFrom(_, _, _)
StrLessFrom(a, b, i) ==
    IF i > Len(b) THEN FALSE
    ELSE IF i > Len(a) THEN TRUE
    ELSE IF Char(a, i) = Char(b, i) THEN StrLessFrom(a, b, i + 1)
    ELSE Ord(Char(a, i)) < Ord(Char(b, i))

StrLess(a, b) == StrLessFrom(a, b, 1)

\* min(a, b): the comparison of max reversed, a variant that the properties of
\* the latest timestamps tell from max
PyMin(a, b) == IF StrLess(a, b) THEN a ELSE b

\* max(a, b)
PyMax(a, b) == IF StrLess(a, b) THEN b ELSE a

\* sub occurs in s at (1-based) position i
OccursAt(s, sub, i) ==
    /\ i >= 1
    /\ i + Len(sub) - 1 <= Len(s)
    /\ SubSeq(s, i, i + Len(sub) - 1) = sub

\* s.find(sub), searching from the (1-based) position i on: the 0-based index
\* of the first occurrence, -1 when none
RECURSIVE FindFrom(_, _, _)
FindFrom(s, sub, i) ==
    IF i + Len(sub) - 1 > Len(s) THEN -1
    ELSE IF OccursAt(s, sub, i) THEN i - 1
    ELSE FindFrom(s, sub, i + 1)

\* s.find(sub)
PyFind(s, sub) == FindFrom(s, sub, 1)

\* s.rfind(sub), searching from the (1-based) position i down: the 0-based
\* index of the last occurrence, -1 when none
RECURSIVE RFindFrom(_, _, _)
RFindFrom(s, sub, i) ==
    IF i < 1 THEN -1
    ELSE IF OccursAt(s, sub, i) THEN i - 1
    ELSE RFindFrom(s, sub, i - 1)

\* s.rfind(sub)
PyRFind(s, sub) == RFindFrom(s, sub, Len(s) - Len(sub) + 1)

\* sub in s
Contains(s, sub) == PyFind(s, sub) # -1

\* a slice bound as Python normalises it: negative counts from the end
SliceIndex(s, i) ==
    IF i < 0 THEN (IF i + Len(s) < 0 THEN 0 ELSE i + Len(s))
    ELSE IF i > Len(s) THEN Len(s) ELSE i

\* s[i:j]
PySlice(s, i, j) == SubSeq(s, SliceIndex(s, i) + 1, SliceIndex(s, j))

\* s[i:]
PySliceFrom(s, i) == SubSeq(s, SliceIndex(s, i) + 1, Len(s))

\* s.replace(old, new): the non-overlapping occurrences, left to right
RECURSIVE PyReplaceFrom(_, _, _, _)
PyReplaceFrom(s, old, new, i) ==
    IF i > Len(s) THEN ""
    ELSE IF OccursAt(s, old, i)
         THEN new \o PyReplaceFrom(s, old, new, i + Len(old))
         ELSE Char(s, i) \o PyReplaceFrom(s, old, new, i + 1)

PyReplace(s, old, new) == PyReplaceFrom(s, old, new, 1)

\* re.sub(r"\W", "_", s)
RECURSIVE ReSubNonWord(_)
ReSubNonWord(s) ==
    IF s = "" THEN ""
    ELSE (IF Char(s, 1) \in WordChars THEN Char(s, 1) ELSE "_")
         \o ReSubNonWord(SubSeq(s, 2, Len(s)))

\* re.sub(r"[^\w\.]", "_", s)
RECURSIVE ReSubNonWordNonDot(_)
ReSubNonWordNonDot(s) ==
    IF s = "" THEN ""
    ELSE (IF Char(s, 1) \in WordChars \cup {"."} THEN Char(s, 1) ELSE "_")
         \o ReSubNonWordNonDot(SubSeq(s, 2, Len(s)))

\* os.path.basename(p)
PyBasename(p) == PySliceFrom(p, PyRFind(p, "/") + 1)

\* os.path.join("**", name), name a base name
JoinGlob(name) == "**/" \o name

----------------------------------------------------------------------------
(* recreate_metadata_card: the file name parsers *)

get_file_task_name(filename) ==
    PySlice(filename, PyFind(filename, "_") + 1, PyRFind(filename, "_"))

get_file_datetime(filename) ==
    PyReplace(PySliceFrom(filename, PyRFind(filename, "_") + 1), ".json", "")

\* datetime.min.isoformat(): the defaultdict's value for a task not yet seen
DatetimeMinIso == "0001-01-01T00:00:00"

SPECIAL_TASKS == <<"mmlu_", "gpqa_", "math_">>

----------------------------------------------------------------------------
(* The files the tracker writes and uploads *)

\* f"results_{self.date_id}.json"
ResultsName(date) == "results_" \o date \o ".json"

\* f"samples_{task_name}_{self.date_id}.json"
SamplesName(task_name, date) ==
    "samples_" \o task_name \o "_" \o date \o ".json"

\* upload_folder(path_in_repo=model_name_sanitized): a file's path in the
\* repository
RepoPath(model_name_sanitized, name) == model_name_sanitized \o "/" \o name

\* datetime.now().isoformat().replace(":", "-") at successive readings of the
\* clock; isoformat() leaves the microseconds out when they are 0.
Stamps ==
    <<"2024-01-01T10-00-00", "2024-01-02T10-00-00.123456",
      "2024-01-03T10-00-00.000001", "2024-01-04T10-00-00.5">>

T1 == Stamps[1]

T2 == Stamps[2]

\* Files that trackers of two models ("m", "n") can have uploaded to one
\* repository: plain tasks, mmlu sub-tasks, a task whose sanitized name is a
\* composite prefix, a task with two prefixes in its name, two task names
\* with one sanitized form, and runs of the two models with one timestamp.
Pool ==
    { RepoPath("m", ResultsName(T1)),
      RepoPath("m", ResultsName(T2)),
      RepoPath("n", ResultsName(T2)),
      RepoPath("m", SamplesName("gsm8k", T1)),
      RepoPath("m", SamplesName("gsm8k", T2)),
      RepoPath("m", SamplesName("mmlu_a", T1)),
      RepoPath("m", SamplesName("mmlu_b", T1)),
      RepoPath("n", SamplesName("mmlu_a", T1)),
      RepoPath("m", SamplesName("mmlu_", T1)),
      RepoPath("m", SamplesName("mmlu_math_x", T2)),
      RepoPath("m", SamplesName("a-b", T1)),
      RepoPath("m", SamplesName("a.b", T1)) }

\* Files of the repository whose names are not of the two forms, and that the
\* listing's filters let through: a sample file with no task name (one
\* underscore), and files in a directory named like an artifact (no
\* underscore in the base name).
MalformedPool ==
    { RepoPath("m", "samples_" \o T1 \o ".json"),
      RepoPath("m", "samples_gsm8k/" \o T1 \o ".json"),
      RepoPath("m", "results_old/" \o T1 \o ".json") }

\* the files the parsers are tried on
ParsePool ==
    MalformedPool \cup
    { RepoPath("m", ResultsName(T1)),
      RepoPath("m", SamplesName("gsm8k", T1)),
      RepoPath("m", SamplesName("gsm8k", T2)) }

\* general_config_tracker.model_name_sanitized of the tracker
ModelName == "m"

\* the tasks the tracker saves samples of
Tasks == {"gsm8k"}

\* the files one tracker can upload
TrackerPaths ==
    {RepoPath(ModelName, ResultsName(Stamps[i])) : i \in 1..Len(Stamps)}
    \cup {RepoPath(ModelName, SamplesName(t, Stamps[i])) :
            t \in Tasks, i \in 1..Len(Stamps)}

----------------------------------------------------------------------------
(* The string functions, tabulated over the strings that occur.  Each table *)
(* is the function above it applied to every argument the builder can pass *)
(* to it; the builder reads the tables.                                    *)

Paths == Pool \cup TrackerPaths \cup ParsePool

BasenameTable == [p \in Paths |-> PyBasename(p)]

Names == {BasenameTable[p] : p \in Paths}

FilterTable ==
    [p \in Paths |->
        [results |-> Contains(p, "/results_") /\ Contains(p, ".json"),
         samples |-> Contains(p, "/samples_") /\ Contains(p, ".json")]]

ParseTable ==
    [n \in Names |-> [task_name |-> get_file_task_name(n),
                      datetime |-> get_file_datetime(n)]]

TaskNames == {ParseTable[n].task_name : n \in Names}

Datetimes == {ParseTable[n].datetime : n \in Names} \cup {DatetimeMinIso}

TaskTable == [t \in TaskNames |-> ReSubNonWord(t)]

SpecialTable ==
    [t \in {TaskTable[u] : u \in TaskNames} |->
        [k \in 1..Len(SPECIAL_TASKS) |-> Contains(t, SPECIAL_TASKS[k])]]

DatetimeTable ==
    [d \in Datetimes |-> [sanitized |-> ReSubNonWordNonDot(d),
                          dashed |-> PyReplace(d, ":", "-")]]

MaxTable == [d \in Datetimes \X Datetimes |-> PyMax(d[1], d[2])]

InPathTable ==
    [x \in Paths \X Datetimes |-> Contains(x[1], DatetimeTable[x[2]].dashed)]

\* p <= q for two paths, as strings
PathOrder == [x \in TrackerPaths \X TrackerPaths |-> ~StrLess(x[2], x[1])]

\* os.path.basename(filename) of a path or of a base name
Basename(filename) ==
    IF filename \in Paths THEN BasenameTable[filename] ELSE filename

\* the listing's filters
IsResultsFile(f) == FilterTable[f].results

IsSampleFile(f) == FilterTable[f].samples

TaskNameOf(filename) == ParseTable[filename].task_name

DatetimeOf(filename) == ParseTable[filename].datetime

\* re.sub(r"\W", "_", task_name)
SubNonWord(task_name) == TaskTable[task_name]

\* re.sub(r"[^\w\.]", "_", eval_date)
SubNonWordNonDot(eval_date) == DatetimeTable[eval_date].sanitized

\* special_task in task_name_sanitized, special_task = SPECIAL_TASKS[k]
ContainsSpecial(task_name_sanitized, k) == SpecialTable[task_name_sanitized][k]

\* max(a, b) of two timestamps
MaxDatetime(a, b) == MaxTable[<<a, b>>]

\* max_latest_task_results_datetime.replace(":", "-") in f
InPath(max_latest, f) == InPathTable[<<f, max_latest>>]

----------------------------------------------------------------------------
(* recreate_metadata_card: the catalog (card_metadata) *)

\* A catalog maps a Config name to its data_files: a sequence of
\* {"split": name, "path": [paths]} entries.

\* A builder that kept its catalog between calls would start from this one, a
\* variant that the repeated build tells from MetadataConfigs().
RetainedConfigs == card_metadata.configs

\* MetadataConfigs(): the empty catalog each build starts from
MetadataConfigs == <<>>

\* card_metadata.get(name, {"data_files": []})["data_files"]
DataFiles(card, name) == IF name \in DOMAIN card THEN card[name] ELSE <<>>

\* card_metadata[name] = {"data_files": data_files}
SetConfig(card, name, data_files) ==
    [n \in (DOMAIN card) \cup {name} |->
        IF n = name THEN data_files ELSE card[n]]

\* {"split": split, "path": [path]}
Entry(split, path) == [split |-> split, path |-> <<path>>]

\* data_files.append({"split": split, "path": [path]}) on Config name
AppendEntry(card, name, split, path) ==
    SetConfig(card, name, Append(DataFiles(card, name), Entry(split, path)))

\* [(i, entry) for i, entry in enumerate(data_files)
\*  if entry.get("split", None) == split]
SplitIndexes(data_files, split) ==
    {i \in 1..Len(data_files) : data_files[i].split = split}

\* The composite Configs' upsert: a new entry when no entry of data_files has
\* this split name, else the path is appended to the first such entry.
UpsertPath(data_files, split, path) ==
    LET former_split == SplitIndexes(data_files, split)
    IN  IF former_split = {}
        THEN Append(data_files, Entry(split, path))
        ELSE LET split_index ==
                     CHOOSE i \in former_split : \A j \in former_split : i <= j
             IN  [data_files EXCEPT
                    ![split_index].path = Append(@, path)]

\* latest_task_results_datetime[task_name], read through the defaultdict
LatestOf(latest, task_name) ==
    IF task_name \in DOMAIN latest THEN latest[task_name] ELSE DatetimeMinIso

\* the loop that fills latest_task_results_datetime
RECURSIVE LatestLoop(_, _)
LatestLoop(sample_files, latest) ==
    IF sample_files = <<>> THEN latest
    ELSE LET filename == Basename(Head(sample_files))
             task_name == TaskNameOf(filename)
             results_datetime == DatetimeOf(filename)
         IN  LatestLoop(Tail(sample_files),
                        SetConfig(latest, task_name,
                                  MaxDatetime(LatestOf(latest, task_name),
                                              results_datetime)))

\* min(latest_task_results_datetime.values()): a variant that the marking of
\* the results tells from max
MinValue(latest) ==
    CHOOSE v \in {latest[t] : t \in DOMAIN latest} :
        \A t \in DOMAIN latest : MaxDatetime(v, latest[t]) = latest[t]

\* max(latest_task_results_datetime.values()), of a non-empty dict
MaxValue(latest) ==
    CHOOSE v \in {latest[t] : t \in DOMAIN latest} :
        \A t \in DOMAIN latest : MaxDatetime(v, latest[t]) = v

\* the loop over results_files
RECURSIVE ResultsLoop(_, _, _)
ResultsLoop(results_files, card, max_latest) ==
    IF results_files = <<>> THEN card
    ELSE LET base == Basename(Head(results_files))
             eval_date == DatetimeOf(base)
             eval_date_sanitized == SubNonWordNonDot(eval_date)
             results_filename == JoinGlob(base)
             sanitized_last_eval_date_results == SubNonWordNonDot(max_latest)
             added == AppendEntry(card, "results", eval_date_sanitized,
                                  results_filename)
             marked ==
                 IF eval_date_sanitized = sanitized_last_eval_date_results
                 THEN AppendEntry(added, "results", "latest", results_filename)
                 ELSE added
         IN  ResultsLoop(Tail(results_files), marked, max_latest)

\* one pass of the loop over SPECIAL_TASKS, from its k-th element on
RECURSIVE SpecialLoop(_, _, _, _, _, _)
SpecialLoop(k, card, task_name_sanitized, eval_date_sanitized, is_latest, results_filename) ==
    IF k > Len(SPECIAL_TASKS) THEN card
    ELSE LET special_task == SPECIAL_TASKS[k]
             former_entry == DataFiles(card, special_task)
             with_split == UpsertPath(former_entry, eval_date_sanitized,
                                      results_filename)
             with_latest ==
                 IF is_latest
                 THEN UpsertPath(with_split, "latest", results_filename)
                 ELSE with_split
             next_card ==
                 IF ContainsSpecial(task_name_sanitized, k)
                 THEN SetConfig(card, special_task, with_latest)
                 ELSE card
         IN  SpecialLoop(k + 1, next_card, task_name_sanitized,
                         eval_date_sanitized, is_latest, results_filename)

\* the loop over sample_files that adds the task and the composite Configs
RECURSIVE TaskLoop(_, _, _)
TaskLoop(sample_files, card, latest) ==
    IF sample_files = <<>> THEN card
    ELSE LET filename == Basename(Head(sample_files))
             task_name == TaskNameOf(filename)
             eval_date == DatetimeOf(filename)
             task_name_sanitized == SubNonWord(task_name)
             eval_date_sanitized == SubNonWordNonDot(eval_date)
             results_filename == JoinGlob(Basename(filename))
             sanitized_last_eval_date_results ==
                 SubNonWordNonDot(LatestOf(latest, task_name))
             is_latest ==
                 eval_date_sanitized = sanitized_last_eval_date_results
             added == AppendEntry(card, task_name_sanitized,
                                  eval_date_sanitized, results_filename)
             marked ==
                 IF is_latest
                 THEN AppendEntry(added, task_name_sanitized, "latest",
                                  results_filename)
                 ELSE added
             merged == SpecialLoop(1, marked, task_name_sanitized,
                                   eval_date_sanitized, is_latest,
                                   results_filename)
         IN  TaskLoop(Tail(sample_files), merged, latest)

\* last_results_file = [f for f in results_files if ... in f]: the candidates
LastResultsFiles(results_files, max_latest) ==
    SelectSeq(results_files,
              LAMBDA f : InPath(max_latest, f))

\* The catalog build of recreate_metadata_card over the listing files_in_repo:
\* what it computes, and the exception that ends it ("none": it completes).
BuildCatalog(files_in_repo) ==
    LET results_files == SelectSeq(files_in_repo, IsResultsFile)
        sample_files == SelectSeq(files_in_repo, IsSampleFile)
        latest == LatestLoop(sample_files, <<>>)
    IN  IF DOMAIN latest = {}
        THEN [error |-> "ValueError", built |-> FALSE,
              latest |-> latest, card |-> <<>>]
        ELSE LET max_latest == MaxValue(latest)
                 card == TaskLoop(sample_files,
                                  ResultsLoop(results_files, MetadataConfigs,
                                              max_latest),
                                  latest)
             IN  [error |-> IF LastResultsFiles(results_files, max_latest) = <<>>
                            THEN "IndexError" ELSE "none",
                  built |-> TRUE, latest |-> latest, card |-> card]

----------------------------------------------------------------------------
(* The listings the builder is given *)

\* the longest listing drawn from Pool
MaxFiles == 3

IsListing(s) == \A i, j \in 1..Len(s) : s[i] = s[j] => i = j

\* the listings of distinct files of S, in every order
ListingsOf(S) ==
    {s \in UNION {[1..n -> S] : n \in 0..MaxFiles} : IsListing(s)}

----------------------------------------------------------------------------
(* State *)

Unset == "Unset"

NoCard == [pushed |-> FALSE, configs |-> <<>>]

NoBuild == [built |-> FALSE, configs |-> <<>>]

\* How the last call ended: the exception that ended it or was caught and
\* logged in it ("none": no exception), whether the exception reached the
\* caller, whether the call built a catalog, and whether it built it over the
\* listing of the catalog built before.
Outcome(error, raised, built, again) ==
    [error |-> error, raised |-> raised, built |-> built, again |-> again]

NoOutcome == Outcome("none", FALSE, FALSE, FALSE)

\* the exception a failing step raises: a local step (building the dump,
\* writing a file) or a call to the remote repository
Raised(fail) ==
    IF fail = "none" THEN "none"
    ELSE IF fail \in {"dump", "write"} THEN "OSError"
    ELSE "HfHubHTTPError"

\* the save_results_aggregated calls of one tracker
MaxRuns == 2

\* the samples of one save_results_samples call
MaxSamples == 1

\* the remote calls of recreate_metadata_card that can fail (transport,
\* authentication)
RecreateFailures == {"none", "list_repo_files", "load_dataset", "push_to_hub"}

\* recreate_metadata_card pushing the card as soon as the catalog is built,
\* before the results file is loaded: a variant that a failing publish tells
\* from the method.
RecreatePushedFirst(files, fail) ==
    IF fail = "list_repo_files"
    THEN [error |-> Raised(fail), built |-> FALSE, latest |-> <<>>,
          card |-> <<>>, pushed |-> FALSE]
    ELSE LET b == BuildCatalog(files)
         IN  [error |-> IF b.error # "none" THEN b.error ELSE Raised(fail),
              built |-> b.built, latest |-> b.latest, card |-> b.card,
              pushed |-> b.built]

\* recreate_metadata_card on the listing `files`, with the remote call `fail`
\* failing: the exception that ends it ("none": it returns), what it built
\* and whether the card was pushed.
RecreateResult(files, fail) ==
    IF fail = "list_repo_files"
    THEN [error |-> Raised(fail), built |-> FALSE, latest |-> <<>>,
          card |-> <<>>, pushed |-> FALSE]
    ELSE LET b == BuildCatalog(files)
         IN  [error |-> IF b.error # "none" THEN b.error ELSE Raised(fail),
              built |-> b.built, latest |-> b.latest, card |-> b.card,
              pushed |-> b.error = "none" /\ fail = "none"]

\* the effect of a recreate_metadata_card call on the builder's variables and
\* on the remote card
RecreateEffect(r, files) ==
    /\ card_metadata' = IF r.built THEN [built |-> TRUE, configs |-> r.card]
                        ELSE card_metadata
    /\ latest_dt' = IF r.built THEN r.latest ELSE latest_dt
    /\ listed' = IF r.built THEN files ELSE listed
    /\ repo_card' = IF r.pushed THEN [pushed |-> TRUE, configs |-> r.card]
                    ELSE repo_card

\* the call builds a catalog over the listing of the catalog built before
Rebuilt(r, files) == r.built /\ card_metadata.built /\ listed = files

\* recreate_metadata_card(), called on its own: its exceptions reach the caller
RecreateMetadataCard(fail) ==
    \E r \in {RecreateResult(repo_files, fail)} :
        /\ RecreateEffect(r, repo_files)
        /\ outcome' = Outcome(r.error, r.error # "none", r.built,
                               Rebuilt(r, repo_files))
        /\ UNCHANGED <<repo_files, date_id, local_files, clock, run, config>>
        /\ UNCHANGED <<samples, task_hashes>>

----------------------------------------------------------------------------
(* save_results_aggregated and save_results_samples *)

Range(s) == {s[i] : i \in 1..Len(s)}

\* the files of S in path order
RECURSIVE Sorted(_)
Sorted(S) ==
    IF S = {} THEN <<>>
    ELSE LET first == CHOOSE p \in S : \A q \in S : PathOrder[<<p, q>>]
         IN  <<first>> \o Sorted(S \ {first})

\* upload_folder(folder_path=path, path_in_repo=model_name_sanitized): the
\* repository's listing after the local files are uploaded.  The store lists
\* its files in path order.
Uploaded(files, local) ==
    Sorted(Range(files) \cup {RepoPath(ModelName, n) : n \in DOMAIN local})

\* A results file is modelled by the run that wrote it, a sample file by the
\* runs whose samples it holds, in the order in which they were appended.

\* open(file, "a").write(sample_dump), for a sample of run r
Appended(local, name, r) ==
    [n \in (DOMAIN local) \cup {name} |->
        IF n # name THEN local[n]
        ELSE IF name \notin DOMAIN local THEN <<r>>
        ELSE IF local[name][Len(local[name])] = r THEN local[name]
        ELSE Append(local[name], r)]

\* file.open("w").write(dumped)
Written(local, name, content) ==
    [n \in (DOMAIN local) \cup {name} |->
        IF n = name THEN content ELSE local[n]]

\* hash_string(string) of lm_eval.utils: a digest of the string, taken as
\* injective
hash_string(string) == [sha256 |-> string]

\* s["doc_hash"] + s["prompt_hash"] + s["target_hash"]
SampleHash(s) == s.doc_hash \o s.prompt_hash \o s.target_hash

\* "".join(sample_hashes)
RECURSIVE Join(_)
Join(sample_hashes) ==
    IF sample_hashes = <<>> THEN ""
    ELSE Head(sample_hashes) \o Join(Tail(sample_hashes))

\* task_hashes of save_results_aggregated: empty if no samples are given, else
\* one hash per task of the samples
TaskHashes(task_samples) ==
    [task_name \in DOMAIN task_samples |->
        hash_string(Join([i \in 1..Len(task_samples[task_name]) |->
                             SampleHash(task_samples[task_name][i])]))]

\* the steps of save_results_aggregated that can fail: building the dump or
\* the directory, writing the file, and the two remote calls
AggregatedFailures ==
    {"none", "dump", "write", "create_repo", "upload_folder"}

SaveResultsAggregated(fail) ==
    /\ run < MaxRuns
    /\ fail # "none" => config.output_path
    /\ fail \in {"create_repo", "upload_folder"} => config.push_results
    /\ run' = run + 1
    /\ outcome' = Outcome(Raised(fail), FALSE, FALSE, FALSE)
    /\ IF ~config.output_path \/ fail = "dump"
       THEN UNCHANGED <<date_id, clock, local_files, repo_files>>
       ELSE /\ date_id' = Stamps[clock + 1]
            /\ clock' = clock + 1
            /\ local_files' =
                   IF fail = "write" THEN local_files
                   ELSE Written(local_files, ResultsName(date_id'), <<run'>>)
            /\ IF config.push_results /\ fail = "none"
               THEN repo_files' = Uploaded(repo_files, local_files')
               ELSE UNCHANGED repo_files
    /\ task_hashes' = IF config.output_path THEN TaskHashes(samples)
                      ELSE task_hashes
    /\ UNCHANGED <<repo_card, card_metadata, latest_dt, listed, config, samples>>

\* the steps of save_results_samples that can fail, before the card is
\* rebuilt: writing the files (the directory, a sample) and two remote calls
SamplesFailures == {"none", "write", "create_repo", "upload_folder"}

\* save_results_samples ends before anything is uploaded
SamplesNoUpload(error) ==
    /\ outcome' = Outcome(error, FALSE, FALSE, FALSE)
    /\ UNCHANGED <<repo_files, repo_card, card_metadata, latest_dt, listed>>

SaveResultsSamples(task_name, n, fail) ==
    /\ fail # "none" => config.output_path
    /\ fail \in {"create_repo", "upload_folder"} \cup (RecreateFailures \ {"none"})
          => config.push_samples
    /\ UNCHANGED <<date_id, clock, run, config, samples, task_hashes>>
    /\ IF ~config.output_path
       THEN SamplesNoUpload("none") /\ UNCHANGED local_files
       ELSE IF date_id = Unset
       THEN SamplesNoUpload("AttributeError") /\ UNCHANGED local_files
       ELSE LET name == SamplesName(task_name, date_id)
            IN  /\ \E written \in (IF fail = "write" THEN 0..n ELSE {n}) :
                       local_files' =
                           IF written = 0 THEN local_files
                           ELSE Appended(local_files, name, run)
                /\ IF ~config.push_samples
                      \/ fail \in {"write", "create_repo", "upload_folder"}
                   THEN SamplesNoUpload(Raised(fail))
                   ELSE /\ repo_files' = Uploaded(repo_files, local_files')
                        /\ \E r \in {RecreateResult(repo_files', fail)} :
                               /\ RecreateEffect(r, repo_files')
                               /\ outcome' =
                                      Outcome(r.error, FALSE, r.built,
                                              Rebuilt(r, repo_files'))

----------------------------------------------------------------------------
(* Specifications *)

InitTracker ==
    /\ repo_card = NoCard
    /\ card_metadata = NoBuild
    /\ latest_dt = <<>>
    /\ listed = <<>>
    /\ outcome = NoOutcome
    /\ date_id = Unset
    /\ local_files = <<>>
    /\ clock = 0
    /\ run = 0
    /\ task_hashes = <<>>

\* recreate_metadata_card over a repository that holds any files of Pool
InitBuild ==
    /\ InitTracker
    /\ repo_files \in ListingsOf(Pool)
    /\ samples = <<>>
    /\ config = [output_path |-> TRUE, push_results |-> TRUE,
                 push_samples |-> TRUE]

\* the remote calls succeed
NextBuild == RecreateMetadataCard("none")

SpecBuild == InitBuild /\ [][NextBuild]_vars

\* recreate_metadata_card over a repository that holds files with malformed
\* names
InitParse ==
    /\ InitTracker
    /\ repo_files \in ListingsOf(ParsePool)
    /\ samples = <<>>
    /\ config = [output_path |-> TRUE, push_results |-> TRUE,
                 push_samples |-> TRUE]

SpecParse == InitParse /\ [][NextBuild]_vars

\* a sample, by its three hashes
Sample(doc_hash, prompt_hash, target_hash) ==
    [doc_hash |-> doc_hash, prompt_hash |-> prompt_hash,
     target_hash |-> target_hash]

\* the samples the calls are given
SamplePool ==
    { Sample("a", "b", "ab"), Sample("ab", "a", "b"),
      Sample("a", "b", "b"), Sample("b", "a", "b") }

\* the samples of one task
MaxTaskSamples == 2

\* the tasks of a samples argument
HashTasks == {"gsm8k", "ifeval"}

SampleLists == UNION {[1..n -> SamplePool] : n \in 0..MaxTaskSamples}

\* save_results_aggregated with any samples argument: None, or the samples of
\* two tasks
InitHash ==
    /\ InitTracker
    /\ repo_files = <<>>
    /\ samples \in {<<>>} \cup [HashTasks -> SampleLists]
    /\ config = [output_path |-> TRUE, push_results |-> TRUE,
                 push_samples |-> TRUE]

NextHash == \E fail \in AggregatedFailures : SaveResultsAggregated(fail)

SpecHash == InitHash /\ [][NextHash]_vars

\* one tracker, constructed with any arguments, and an empty repository
Init ==
    /\ InitTracker
    /\ repo_files = <<>>
    /\ samples = <<>>
    /\ config \in [output_path : BOOLEAN, push_results : BOOLEAN,
                   push_samples : BOOLEAN]

Next ==
    \/ \E fail \in AggregatedFailures : SaveResultsAggregated(fail)
    \/ \E task_name \in Tasks, n \in 0..MaxSamples,
          fail \in SamplesFailures \cup RecreateFailures :
           SaveResultsSamples(task_name, n, fail)

Spec == Init /\ [][Next]_vars

----------------------------------------------------------------------------
(* Properties of the catalog build (SpecBuild) *)

\* the catalog of the last build
Catalog == card_metadata.configs

\* the last call built the catalog and pushed it as the card
Pushed ==
    /\ card_metadata.built
    /\ outcome.error = "none"
    /\ repo_card = [pushed |-> TRUE, configs |-> Catalog]

SampleFilesOf(files) == SelectSeq(files, IsSampleFile)

ResultsFilesOf(files) == SelectSeq(files, IsResultsFile)

TaskOfFile(f) == TaskNameOf(Basename(f))

StampOfFile(f) == DatetimeOf(Basename(f))

GlobPath(f) == JoinGlob(Basename(f))

\* a is before b in the ordering of strings
Earlier == [x \in Datetimes \X Datetimes |-> StrLess(x[1], x[2])]

\* the greatest timestamp of a non-empty set
LatestIn(S) == CHOOSE d \in S : \A e \in S : ~Earlier[<<d, e>>]

\* the timestamps of a task's sample files
TaskStamps(files, task) ==
    {StampOfFile(f) :
        f \in {g \in Range(SampleFilesOf(files)) : TaskOfFile(g) = task}}

\* the greatest of the tasks' latest timestamps
GlobalLatest(files) ==
    LatestIn({LatestIn(TaskStamps(files, TaskOfFile(f))) :
                 f \in Range(SampleFilesOf(files))})

\* path is in a Split of data_files named split
InSplit(data_files, split, path) ==
    \E i \in SplitIndexes(data_files, split) :
        path \in Range(data_files[i].path)

OnlyWordChars(s) == \A i \in 1..Len(s) : Char(s, i) \in WordChars

\* C1: in the catalog of a pushed card, no Split of any Config holds the same
\* path twice.
C1_NoDuplicatePaths ==
    Pushed =>
        \A c \in DOMAIN Catalog :
            \A i \in 1..Len(Catalog[c]) : IsListing(Catalog[c][i].path)

\* C2: in the catalog of a pushed card, every Config has exactly one Split
\* named "latest".
C2_ExactlyOneLatest ==
    Pushed =>
        \A c \in DOMAIN Catalog :
            Cardinality(SplitIndexes(Catalog[c], "latest")) = 1

\* C3: for every task with a sample file, the task's latest timestamp is the
\* greatest of the task's timestamps as strings, whatever the order of the
\* listing, and a sample file's path is in a Split "latest" of the task's
\* Config exactly when its timestamp is that greatest one.
C3_TaskLatest ==
    card_metadata.built =>
        \A f \in Range(SampleFilesOf(listed)) :
            LET task == TaskOfFile(f)
                top == LatestIn(TaskStamps(listed, task))
            IN  /\ task \in DOMAIN latest_dt
                /\ latest_dt[task] = top
                /\ InSplit(DataFiles(Catalog, SubNonWord(task)), "latest",
                           GlobPath(f))
                       <=> StampOfFile(f) = top

\* C3's case: a task with two timestamps, the later one listed first; only the
\* later file is in "latest".
C3_Witness ==
    /\ card_metadata.built
    /\ \E i, j \in 1..Len(listed) :
           /\ i < j
           /\ IsSampleFile(listed[i]) /\ IsSampleFile(listed[j])
           /\ TaskOfFile(listed[i]) = TaskOfFile(listed[j])
           /\ Earlier[<<StampOfFile(listed[j]), StampOfFile(listed[i])>>]
           /\ latest_dt[TaskOfFile(listed[i])] = StampOfFile(listed[i])
           /\ LET data_files ==
                      DataFiles(Catalog, SubNonWord(TaskOfFile(listed[i])))
              IN  /\ InSplit(data_files, "latest", GlobPath(listed[i]))
                  /\ ~InSplit(data_files, "latest", GlobPath(listed[j]))

\* C4: every results file's path is in Config "results" in the Split named by
\* its sanitized timestamp, and in a Split "latest" of "results" exactly when
\* its timestamp is the greatest of the tasks' latest sample timestamps.
C4_ResultsSplits ==
    card_metadata.built =>
        \A f \in Range(ResultsFilesOf(listed)) :
            LET data_files == DataFiles(Catalog, "results")
            IN  /\ InSplit(data_files, SubNonWordNonDot(StampOfFile(f)),
                           GlobPath(f))
                /\ InSplit(data_files, "latest", GlobPath(f))
                       <=> StampOfFile(f) = GlobalLatest(listed)

\* C4's case: the latest results file is later than every sample file; it is
\* not in "latest", an earlier results file is.
C4_Witness ==
    /\ card_metadata.built
    /\ \E f, g \in Range(ResultsFilesOf(listed)) :
           /\ Earlier[<<GlobalLatest(listed), StampOfFile(g)>>]
           /\ StampOfFile(f) = GlobalLatest(listed)
           /\ InSplit(Catalog["results"], "latest", GlobPath(f))
           /\ ~InSplit(Catalog["results"], "latest", GlobPath(g))

\* C5: in the catalog of a pushed card, for every composite prefix and every
\* timestamp of a sample file whose sanitized task name contains the prefix,
\* the composite Config has exactly one Split named by the sanitized
\* timestamp, and its path list has one entry per such sample file.
C5_CompositeSplits ==
    Pushed =>
        \A k \in 1..Len(SPECIAL_TASKS) :
            \A f \in Range(SampleFilesOf(listed)) :
                ContainsSpecial(SubNonWord(TaskOfFile(f)), k) =>
                    LET data_files == DataFiles(Catalog, SPECIAL_TASKS[k])
                        named == SplitIndexes(data_files,
                                     SubNonWordNonDot(StampOfFile(f)))
                        members ==
                            SelectSeq(SampleFilesOf(listed),
                                LAMBDA g :
                                    /\ ContainsSpecial(
                                           SubNonWord(TaskOfFile(g)), k)
                                    /\ StampOfFile(g) = StampOfFile(f))
                    IN  /\ Cardinality(named) = 1
                        /\ \A i \in named :
                               Len(data_files[i].path) = Len(members)

\* C6: a build over the listing of the build before it gives the same catalog:
\* the same Configs, Splits and path lists, and the same latest timestamps.
C6_SameListingSameCatalog ==
    [][(card_metadata.built /\ outcome'.built /\ listed' = listed)
          => (card_metadata' = card_metadata /\ latest_dt' = latest_dt)]_vars

\* C6's case: the catalog was built again over the same listing, and has a
\* Config of several Splits.
C6_Witness ==
    /\ outcome.again
    /\ card_metadata.built
    /\ listed = repo_files
    /\ \E c \in DOMAIN Catalog : Len(Catalog[c]) >= 2

\* C7: in the catalog of a pushed card, Config names and Split names have word
\* characters only, and no two Splits of a Config have the same name.  (Config
\* names are the keys of the catalog: no two are the same.)
C7_NamesSanitizedUnique ==
    Pushed =>
        \A c \in DOMAIN Catalog :
            /\ OnlyWordChars(c)
            /\ \A i \in 1..Len(Catalog[c]) : OnlyWordChars(Catalog[c][i].split)
            /\ \A i, j \in 1..Len(Catalog[c]) :
                   Catalog[c][i].split = Catalog[c][j].split => i = j

\* C8: a call over a listing with no results file, or with no sample file,
\* completes: with no entry in Config "results" in the first case, with no
\* Config but "results" in the second.
C8_EmptyInputsComplete ==
    outcome # NoOutcome =>
        /\ (ResultsFilesOf(repo_files) = <<>>
              /\ SampleFilesOf(repo_files) # <<>>)
             => (outcome.error = "none" /\ card_metadata.built
                   /\ DataFiles(Catalog, "results") = <<>>)
        /\ SampleFilesOf(repo_files) = <<>>
             => (outcome.error = "none" /\ card_metadata.built
                   /\ DOMAIN Catalog \subseteq {"results"})

----------------------------------------------------------------------------
(* Properties of the parsers (SpecParse) *)

\* C9: a call over a listing with a file whose name is not of the two forms
\* raises, and pushes no card made from it.
C9_MalformedNameRaises ==
    (outcome # NoOutcome /\ \E f \in Range(repo_files) : f \in MalformedPool)
        => (outcome.raised /\ repo_card = NoCard)

----------------------------------------------------------------------------
(* Properties of the tracker's calls (Spec) *)

\* the errors of the publish of save_results_samples: of a remote call, or of
\* the catalog build
PublishErrors == {"HfHubHTTPError", "ValueError", "IndexError"}

\* a step of save_results_samples (the run is the same) whose publish failed
FailedPublish ==
    /\ run' = run
    /\ config.output_path /\ config.push_samples
    /\ outcome'.error \in PublishErrors

\* C10 as stated: a failed publish of save_results_samples leaves the
\* repository's files and its card as they were, and raises nothing.
C10_FailedPublishUnchanged ==
    [][FailedPublish =>
          /\ repo_files' = repo_files
          /\ repo_card' = repo_card
          /\ ~outcome'.raised]_vars

\* C10: a failed publish of save_results_samples raises nothing and leaves the
\* card as it was; the files of the repository stay, and the only change to
\* them is the upload of the local folder, made before the card is rebuilt.
C10_FailedPublishKeepsCard ==
    [][FailedPublish =>
          /\ ~outcome'.raised
          /\ repo_card' = repo_card
          /\ Range(repo_files) \subseteq Range(repo_files')
          /\ \/ repo_files' = repo_files
             \/ repo_files' = Uploaded(repo_files, local_files')]_vars

\* C10's case: a publish failed after the catalog was built from the uploaded
\* files; the repository holds the files and no card.
C10_Witness ==
    /\ outcome.error = "HfHubHTTPError"
    /\ outcome.built
    /\ ~outcome.raised
    /\ repo_card = NoCard
    /\ \E f \in Range(repo_files) : IsSampleFile(f)

----------------------------------------------------------------------------
(* Properties of the task hashes (SpecHash) *)

\* C11: two tasks' sample lists get the same hash exactly when the lists have
\* the same (doc, prompt, target) hash triples in the same order.
C11_SameHashSameTriples ==
    \A t, u \in DOMAIN task_hashes :
        task_hashes[t] = task_hashes[u] <=> samples[t] = samples[u]

----------------------------------------------------------------------------
(* Properties of the sample files (Spec) *)

\* the names save_results_samples gives its files
SampleNames ==
    {SamplesName(task_name, Stamps[i]) :
        task_name \in Tasks, i \in 1..Len(Stamps)}

\* C12: no sample file holds the samples of two runs, and no sample file is
\* written while no timestamp has been assigned.
C12_SampleFileOfOneRun ==
    /\ \A name \in DOMAIN local_files :
           name \in SampleNames => Len(local_files[name]) = 1
    /\ date_id = Unset => DOMAIN local_files \cap SampleNames = {}

====
